---- MODULE Spec2Model ----
(***************************************************************************)
(* Model of the leak map viewer: frontend/js/main.js with the config       *)
(* object of frontend/config.js.  The script builds a Leaflet map, adds    *)
(* the tile layer, issues one fetch of the WFS endpoint, and runs the      *)
(* promise chain  fetch(...).then(response).then(data).catch(error).       *)
(*                                                                         *)
(* JavaScript values are modelled as records [t, n, s]: t is the type tag, *)
(* n the number (for t = "number"), s the text (for t = "string").  A      *)
(* missing key of an object reads as Undefined, as in JavaScript.          *)
(*                                                                         *)
(* Not modelled: the "Reportado em" line of the popup (line 52, the        *)
(* locale-dependent date text), geometry/coordinates, and the tiles.       *)
(***************************************************************************)
EXTENDS Integers, Sequences, FiniteSets, TLC

VARIABLES
    pc,            \* position of the script / of the promise chain
    configLoaded,  \* whether config.js defined the global `config`
    mapView,       \* L.map('map').setView(...) has run
    tileLayer,     \* the OSM tile layer is attached to the map
    requests,      \* number of fetch() calls issued
    response,      \* the Response the fetch resolved with, or NoResponse
    jsonCalls,     \* number of response.json() calls
    data,          \* the parsed body handed to the second then, or NoData
    error,         \* rejection reason travelling down the chain, or NoError
    mapLayers,     \* GeoJSON layers added to the map; each a sequence of markers
    alerts,        \* number of alert() calls
    consoleErrors, \* number of console.error() calls
    consoleLogs,   \* number of console.log() calls
    handlers,      \* the chain's callbacks that have run, in order
    call           \* last direct call of a pure function: [fn, arg, ret]

vars == <<pc, configLoaded, mapView, tileLayer, requests, response, jsonCalls,
          data, error, mapLayers, alerts, consoleErrors, consoleLogs, handlers,
          call>>

scriptVars == <<pc, configLoaded, mapView, tileLayer, requests, response,
                jsonCalls, data, error, mapLayers, alerts, consoleErrors,
                consoleLogs, handlers>>

-----------------------------------------------------------------------------
(* Bounds *)

\* Largest numeric score drawn.
MaxScore == 7

\* Largest number of features in a response body.
MaxFeatures == 2

-----------------------------------------------------------------------------
(* JavaScript values *)

Undefined == [t |-> "undefined", n |-> 0, s |-> ""]

Null == [t |-> "null", n |-> 0, s |-> ""]

NaN == [t |-> "NaN", n |-> 0, s |-> ""]

Num(k) == [t |-> "number", n |-> k, s |-> ""]

Str(x) == [t |-> "string", n |-> 0, s |-> x]

ScoreNumbers == (0 - 1)..MaxScore

\* ToBoolean: undefined, null, NaN, 0 and "" are falsy.
Truthy(v) ==
    CASE v.t = "undefined" -> FALSE
      [] v.t = "null"      -> FALSE
      [] v.t = "NaN"       -> FALSE
      [] v.t = "number"    -> v.n # 0
      [] v.t = "string"    -> v.s # ""
      [] OTHER             -> TRUE

\* a || b
Or(a, b) == IF Truthy(a) THEN a ELSE b

\* a ?? b: the operator the properties compare against; main.js itself uses ||.
Nullish(a, b) == IF a.t \in {"undefined", "null"} THEN b ELSE a

\* Number("...") on the decimal texts of ScoreNumbers: "" is 0, a decimal
\* integer is its value, any other text is NaN.
StringToNumber(x) ==
    IF x = "" THEN Num(0)
    ELSE IF \E k \in ScoreNumbers : ToString(k) = x
         THEN Num(CHOOSE k \in ScoreNumbers : ToString(k) = x)
         ELSE NaN

\* ToNumber, as applied by the relational operators.
ToNumber(v) ==
    CASE v.t = "undefined" -> NaN
      [] v.t = "null"      -> Num(0)
      [] v.t = "NaN"       -> NaN
      [] v.t = "number"    -> v
      [] v.t = "string"    -> StringToNumber(v.s)

\* v >= k for a numeric literal k: false whenever ToNumber(v) is NaN.
GreaterOrEqual(v, k) ==
    LET x == ToNumber(v) IN x.t = "number" /\ x.n >= k

\* ${v} in a template literal.
TemplateText(v) ==
    CASE v.t = "undefined" -> "undefined"
      [] v.t = "null"      -> "null"
      [] v.t = "NaN"       -> "NaN"
      [] v.t = "number"    -> ToString(v.n)
      [] v.t = "string"    -> v.s

\* Outcome of a call: a returned value or a thrown exception.
Return(v) == [threw |-> FALSE, value |-> v]

Throw(e) == [threw |-> TRUE, value |-> e]

-----------------------------------------------------------------------------
(* Pure functions of main.js *)

\* Strict comparisons: on integer scores, score > 5 and score > 2.
getPriorityColor_Strict(score) ==
    IF GreaterOrEqual(score, 6) THEN "red"
    ELSE IF GreaterOrEqual(score, 3) THEN "orange"
    ELSE "green"

getPriorityColor(score) ==
    IF GreaterOrEqual(score, 5) THEN "red"
    ELSE IF GreaterOrEqual(score, 2) THEN "orange"
    ELSE "green"

stylePoints_DefaultFive(feature) ==
    IF feature.properties \in {Null, Undefined}
    THEN Throw("TypeError")
    ELSE LET score == Or(feature.properties.prioridade_score, Num(5))
         IN  Return([radius |-> 8,
                     fillColor |-> getPriorityColor(score),
                     color |-> "#000",
                     weight |-> 1,
                     opacity |-> 1,
                     fillOpacity |-> "0.8"])

\* Reading feature.properties.prioridade_score of a null properties throws.
stylePoints(feature) ==
    IF feature.properties \in {Null, Undefined}
    THEN Throw("TypeError")
    ELSE LET score == Or(feature.properties.prioridade_score, Num(0))
         IN  Return([radius |-> 8,
                     fillColor |-> getPriorityColor(score),
                     color |-> "#000",
                     weight |-> 1,
                     opacity |-> 1,
                     fillOpacity |-> "0.8"])

\* One "<b>label:</b> text<br>" line of the popup.
Line(label, text) == [tag |-> "b", label |-> label, text |-> text]

\* The appended <img src="..."> element.
Img(src) == [tag |-> "img", label |-> "src", text |-> src]

\* L.circleMarker(latlng, options): a marker with no popup bound yet.
circleMarker(options) == [options |-> options, popup |-> <<>>]

\* layer.bindPopup(content)
bindPopup(layer, content) == [layer EXCEPT !.popup = <<content>>]

onEachFeature_AlwaysImg(feature, layer) ==
    IF feature.properties \in {Null, Undefined}
    THEN layer
    ELSE LET props == feature.properties
             popupContent ==
                 << Line("Tipo", TemplateText(Or(props.tipo_vazamento, Str("N/A")))),
                    Line("Descricao", TemplateText(Or(props.descricao_detalhes, Str("N/A")))),
                    Line("Intensidade", TemplateText(Or(props.intensidade_vazamento, Str("N/A")))),
                    Line("Origem", TemplateText(Or(props.origem_vazamento, Str("N/A")))),
                    Line("Prioridade", TemplateText(Or(props.prioridade_score, Num(0)))),
                    Line("Status", TemplateText(Or(props.status, Str("N/A")))) >>
         IN  bindPopup(layer, Append(popupContent, Img(TemplateText(props.foto_url))))

onEachFeature_NoDefault(feature, layer) ==
    IF feature.properties \in {Null, Undefined}
    THEN layer
    ELSE LET props == feature.properties
             popupContent ==
                 << Line("Tipo", TemplateText(props.tipo_vazamento)),
                    Line("Descricao", TemplateText(props.descricao_detalhes)),
                    Line("Intensidade", TemplateText(props.intensidade_vazamento)),
                    Line("Origem", TemplateText(props.origem_vazamento)),
                    Line("Prioridade", TemplateText(props.prioridade_score)),
                    Line("Status", TemplateText(props.status)) >>
         IN  bindPopup(layer,
                       IF Truthy(props.foto_url)
                       THEN Append(popupContent, Img(TemplateText(props.foto_url)))
                       ELSE popupContent)

\* feature.properties is an object (truthy) or null/undefined (falsy).
onEachFeature(feature, layer) ==
    IF feature.properties \in {Null, Undefined}
    THEN layer
    ELSE LET props == feature.properties
             popupContent ==
                 << Line("Tipo", TemplateText(Or(props.tipo_vazamento, Str("N/A")))),
                    Line("Descricao", TemplateText(Or(props.descricao_detalhes, Str("N/A")))),
                    Line("Intensidade", TemplateText(Or(props.intensidade_vazamento, Str("N/A")))),
                    Line("Origem", TemplateText(Or(props.origem_vazamento, Str("N/A")))),
                    Line("Prioridade", TemplateText(Or(props.prioridade_score, Num(0)))),
                    Line("Status", TemplateText(Or(props.status, Str("N/A")))) >>
         IN  bindPopup(layer,
                       IF Truthy(props.foto_url)
                       THEN Append(popupContent, Img(TemplateText(props.foto_url)))
                       ELSE popupContent)

-----------------------------------------------------------------------------
(* Inputs *)

ScoreValues ==
    {Undefined, Null, NaN, Str(""), Str("7"), Str("alta")}
        \cup {Num(k) : k \in ScoreNumbers}

\* Scores a JSON body can carry (JSON has no NaN); a missing key is Undefined.
JsonScoreValues == ScoreValues \ {NaN}

TextValues == {Undefined, Null, Str(""), Str("alta")}

PhotoValues == {Undefined, Null, Str(""), Str("http://fotos/1.jpg")}

\* Property mappings handed to direct calls of the pure functions.
AllProperties ==
    [tipo_vazamento : TextValues,
     descricao_detalhes : TextValues,
     intensidade_vazamento : TextValues,
     origem_vazamento : TextValues,
     prioridade_score : JsonScoreValues,
     status : TextValues,
     foto_url : PhotoValues]

AllFeatures ==
    {[properties |-> p] : p \in AllProperties} \cup {[properties |-> Null]}

\* Property mappings of the features a WFS response carries (JSON values).
WireProperties ==
    {[tipo_vazamento |-> t,
      descricao_detalhes |-> t,
      intensidade_vazamento |-> t,
      origem_vazamento |-> t,
      prioridade_score |-> sc,
      status |-> t,
      foto_url |-> ph] :
        t \in {Undefined, Str("alta")},
        sc \in {Undefined, Num(1), Num(3), Num(7)},
        ph \in {Undefined, Str("http://fotos/1.jpg")}}

\* Point features; "properties": null is a legal GeoJSON feature.
WireFeatures ==
    {[properties |-> p] : p \in WireProperties} \cup {[properties |-> Null]}

FeatureLists ==
    UNION {[1..k -> WireFeatures] : k \in 0..MaxFeatures}

\* A response body: the text of a FeatureCollection, or text JSON.parse rejects
\* (malformed or cut short).
Bodies ==
    {[kind |-> "FeatureCollection", features |-> fs] : fs \in FeatureLists}
        \cup {[kind |-> "malformed", features |-> <<>>]}

Statuses == {200, 404, 500}

NoResponse == [status |-> 0, ok |-> FALSE, body |-> [kind |-> "none", features |-> <<>>]]

NoData == [type |-> "none", features |-> <<>>]

NoError == [name |-> "", message |-> ""]

NoCall == [fn |-> "none", arg |-> Undefined, ret |-> Undefined]

-----------------------------------------------------------------------------
(* L.geoJSON(data, {pointToLayer, onEachFeature}) *)

\* pointToLayer of line 71: the marker, or the exception of stylePoints.
pointToLayer(feature) ==
    LET style == stylePoints(feature)
    IN  IF style.threw THEN style ELSE Return(circleMarker(style.value))

RECURSIVE addData(_, _)
\* The layers built for the features in order; an exception of pointToLayer
\* leaves the constructor before any layer is returned.
addData(features, layers) ==
    IF features = <<>> THEN Return(layers)
    ELSE LET made == pointToLayer(Head(features))
         IN  IF made.threw THEN made
             ELSE addData(Tail(features),
                          Append(layers, onEachFeature(Head(features), made.value)))

geoJSON(d) == addData(d.features, <<>>)

RECURSIVE builtBeforeThrow(_, _)
\* The layers built up to the first feature whose pointToLayer throws.
builtBeforeThrow(features, layers) ==
    IF features = <<>> THEN layers
    ELSE LET made == pointToLayer(Head(features))
         IN  IF made.threw THEN layers
             ELSE builtBeforeThrow(Tail(features),
                          Append(layers, onEachFeature(Head(features), made.value)))

-----------------------------------------------------------------------------
(* The script *)

Init ==
    /\ pc = "checkConfig"
    /\ configLoaded \in BOOLEAN
    /\ mapView = FALSE
    /\ tileLayer = FALSE
    /\ requests = 0
    /\ response = NoResponse
    /\ jsonCalls = 0
    /\ data = NoData
    /\ error = NoError
    /\ mapLayers = <<>>
    /\ alerts = 0
    /\ consoleErrors = 0
    /\ consoleLogs = 0
    /\ handlers = <<>>
    /\ call = NoCall

\* Lines 4-6: a missing config is reported on the console, nothing else.
CheckConfig ==
    /\ pc = "checkConfig"
    /\ consoleErrors' = IF configLoaded THEN consoleErrors ELSE consoleErrors + 1
    /\ pc' = "initMap"
    /\ UNCHANGED <<configLoaded, mapView, tileLayer, requests, response, jsonCalls,
                   data, error, mapLayers, alerts, consoleLogs, handlers, call>>

\* Line 9: reading config.centerLat of an undeclared config is an uncaught
\* ReferenceError, which ends the script.
InitMap ==
    /\ pc = "initMap"
    /\ IF configLoaded
       THEN mapView' = TRUE /\ pc' = "tileLayer"
       ELSE mapView' = mapView /\ pc' = "aborted"
    /\ UNCHANGED <<configLoaded, tileLayer, requests, response, jsonCalls, data,
                   error, mapLayers, alerts, consoleErrors, consoleLogs, handlers,
                   call>>

\* Lines 12-15.
AddTileLayer ==
    /\ pc = "tileLayer"
    /\ tileLayer' = TRUE
    /\ pc' = "fetch"
    /\ UNCHANGED <<configLoaded, mapView, requests, response, jsonCalls, data,
                   error, mapLayers, alerts, consoleErrors, consoleLogs, handlers,
                   call>>

\* Line 62: the request is issued and the chain registered; the script ends.
IssueFetch ==
    /\ pc = "fetch"
    /\ requests' = requests + 1
    /\ pc' = "pending"
    /\ UNCHANGED <<configLoaded, mapView, tileLayer, response, jsonCalls, data,
                   error, mapLayers, alerts, consoleErrors, consoleLogs, handlers,
                   call>>

\* The server answers: fetch fulfils with a Response of any status.
FetchFulfilled ==
    /\ pc = "pending"
    /\ \E st \in Statuses, b \in Bodies :
           response' = [status |-> st, ok |-> (st >= 200 /\ st <= 299), body |-> b]
    /\ pc' = "then1"
    /\ UNCHANGED <<configLoaded, mapView, tileLayer, requests, jsonCalls, data,
                   error, mapLayers, alerts, consoleErrors, consoleLogs, handlers,
                   call>>

\* No answer (connection failure): fetch rejects, both then callbacks are skipped.
FetchRejected ==
    /\ pc = "pending"
    /\ error' = [name |-> "TypeError", message |-> "Failed to fetch"]
    /\ pc' = "catch"
    /\ UNCHANGED <<configLoaded, mapView, tileLayer, requests, response, jsonCalls,
                   data, mapLayers, alerts, consoleErrors, consoleLogs, handlers,
                   call>>

ThenResponse_NoStatusCheck ==
    /\ pc = "then1"
    /\ handlers' = Append(handlers, "then1")
    /\ jsonCalls' = jsonCalls + 1
    /\ error' = error
    /\ pc' = "json"
    /\ UNCHANGED <<configLoaded, mapView, tileLayer, requests, response, data,
                   mapLayers, alerts, consoleErrors, consoleLogs, call>>

\* Lines 63-68.
ThenResponse ==
    /\ pc = "then1"
    /\ handlers' = Append(handlers, "then1")
    /\ IF ~response.ok
       THEN /\ error' = [name |-> "Error",
                         message |-> "Erro HTTP! Status: " \o ToString(response.status)]
            /\ jsonCalls' = jsonCalls
            /\ pc' = "catch"
       ELSE /\ jsonCalls' = jsonCalls + 1
            /\ error' = error
            /\ pc' = "json"
    /\ UNCHANGED <<configLoaded, mapView, tileLayer, requests, response, data,
                   mapLayers, alerts, consoleErrors, consoleLogs, call>>

\* response.json() fulfils with the parsed body.
JsonResolved ==
    /\ pc = "json"
    /\ response.body.kind = "FeatureCollection"
    /\ data' = [type |-> "FeatureCollection", features |-> response.body.features]
    /\ pc' = "then2"
    /\ UNCHANGED <<configLoaded, mapView, tileLayer, requests, response, jsonCalls,
                   error, mapLayers, alerts, consoleErrors, consoleLogs, handlers,
                   call>>

\* response.json() rejects on a body that is not JSON.
JsonRejected ==
    /\ pc = "json"
    /\ response.body.kind # "FeatureCollection"
    /\ error' = [name |-> "SyntaxError", message |-> "Unexpected end of JSON input"]
    /\ pc' = "catch"
    /\ UNCHANGED <<configLoaded, mapView, tileLayer, requests, response, jsonCalls,
                   data, mapLayers, alerts, consoleErrors, consoleLogs, handlers,
                   call>>

\* The markers built before the exception are put on the map.
ThenData_PartialRender ==
    /\ pc = "then2"
    /\ handlers' = Append(handlers, "then2")
    /\ LET built == geoJSON(data)
       IN  IF built.threw
           THEN /\ error' = [name |-> built.value,
                             message |-> "Cannot read properties of null"]
                /\ mapLayers' = Append(mapLayers, builtBeforeThrow(data.features, <<>>))
                /\ consoleLogs' = consoleLogs
                /\ pc' = "catch"
           ELSE /\ mapLayers' = Append(mapLayers, built.value)
                /\ consoleLogs' = consoleLogs + 1
                /\ error' = error
                /\ pc' = "done"
    /\ UNCHANGED <<configLoaded, mapView, tileLayer, requests, response, jsonCalls,
                   data, alerts, consoleErrors, call>>

\* Lines 69-78: L.geoJSON(...) builds every marker, then .addTo(map).
ThenData ==
    /\ pc = "then2"
    /\ handlers' = Append(handlers, "then2")
    /\ LET built == geoJSON(data)
       IN  IF built.threw
           THEN /\ error' = [name |-> built.value,
                             message |-> "Cannot read properties of null"]
                /\ mapLayers' = mapLayers
                /\ consoleLogs' = consoleLogs
                /\ pc' = "catch"
           ELSE /\ mapLayers' = Append(mapLayers, built.value)
                /\ consoleLogs' = consoleLogs + 1
                /\ error' = error
                /\ pc' = "done"
    /\ UNCHANGED <<configLoaded, mapView, tileLayer, requests, response, jsonCalls,
                   data, alerts, consoleErrors, call>>

\* The alert is shown only for the error thrown on a bad status.
CatchError_OnlyHTTPAlert ==
    /\ pc = "catch"
    /\ handlers' = Append(handlers, "catch")
    /\ consoleErrors' = consoleErrors + 1
    /\ alerts' = IF error.name = "Error" THEN alerts + 1 ELSE alerts
    /\ requests' = requests
    /\ pc' = "done"
    /\ UNCHANGED <<configLoaded, mapView, tileLayer, response, jsonCalls, data,
                   error, mapLayers, consoleLogs, call>>

\* The failure handler issues the request once more.
CatchError_Retry ==
    /\ pc = "catch"
    /\ handlers' = Append(handlers, "catch")
    /\ consoleErrors' = consoleErrors + 1
    /\ alerts' = alerts + 1
    /\ requests' = IF requests < 2 THEN requests + 1 ELSE requests
    /\ pc' = IF requests < 2 THEN "pending" ELSE "done"
    /\ UNCHANGED <<configLoaded, mapView, tileLayer, response, jsonCalls, data,
                   error, mapLayers, consoleLogs, call>>

\* Lines 79-82.
CatchError ==
    /\ pc = "catch"
    /\ handlers' = Append(handlers, "catch")
    /\ consoleErrors' = consoleErrors + 1
    /\ alerts' = alerts + 1
    /\ requests' = requests
    /\ pc' = "done"
    /\ UNCHANGED <<configLoaded, mapView, tileLayer, response, jsonCalls, data,
                   error, mapLayers, consoleLogs, call>>

Next ==
    \/ CheckConfig
    \/ InitMap
    \/ AddTileLayer
    \/ IssueFetch
    \/ FetchFulfilled
    \/ FetchRejected
    \/ ThenResponse
    \/ JsonResolved
    \/ JsonRejected
    \/ ThenData
    \/ CatchError

Spec == Init /\ [][Next]_vars

-----------------------------------------------------------------------------
(* Direct calls of the pure functions: one call per behaviour, on any input *)

InitPure ==
    /\ pc = "checkConfig"
    /\ configLoaded = TRUE
    /\ mapView = FALSE
    /\ tileLayer = FALSE
    /\ requests = 0
    /\ response = NoResponse
    /\ jsonCalls = 0
    /\ data = NoData
    /\ error = NoError
    /\ mapLayers = <<>>
    /\ alerts = 0
    /\ consoleErrors = 0
    /\ consoleLogs = 0
    /\ handlers = <<>>
    /\ call = NoCall

CallGetPriorityColor ==
    /\ call = NoCall
    /\ \E score \in ScoreValues :
           call' = [fn |-> "getPriorityColor", arg |-> score,
                    ret |-> getPriorityColor(score)]
    /\ UNCHANGED scriptVars

CallStylePoints ==
    /\ call = NoCall
    /\ \E feature \in AllFeatures :
           call' = [fn |-> "stylePoints", arg |-> feature,
                    ret |-> stylePoints(feature)]
    /\ UNCHANGED scriptVars

\* onEachFeature is handed the feature and a marker with no popup yet.
CallOnEachFeature ==
    /\ call = NoCall
    /\ \E feature \in AllFeatures :
           call' = [fn |-> "onEachFeature", arg |-> feature,
                    ret |-> onEachFeature(feature, circleMarker(<<>>))]
    /\ UNCHANGED scriptVars

NextPure ==
    \/ CallGetPriorityColor
    \/ CallStylePoints
    \/ CallOnEachFeature

SpecPure == InitPure /\ [][NextPure]_vars

-----------------------------------------------------------------------------
(* Helpers of the properties *)

\* The text shown on the popup line with the given label.
Shown(popup, label) ==
    LET i == CHOOSE j \in 1..Len(popup) : popup[j].tag = "b" /\ popup[j].label = label
    IN  popup[i].text

ImgCount(popup) == Cardinality({j \in 1..Len(popup) : popup[j].tag = "img"})

HasProperties(feature) == feature.properties \notin {Null, Undefined}

\* A key counts as absent when it is missing or JSON null.
Absent(v) == v.t \in {"undefined", "null"}

IsOnEachFeatureCall == call.fn = "onEachFeature" /\ HasProperties(call.arg)

\* The popup content bound by the call (the marker had none before).
CallPopup == call.ret.popup[1]

\* The terminal state of a failed load: logged once, alerted once, nothing drawn.
FailedLoad ==
    /\ alerts = 1
    /\ consoleErrors = 1
    /\ consoleLogs = 0
    /\ mapLayers = <<>>

NoDuplicates(seq) == \A i, j \in 1..Len(seq) : seq[i] = seq[j] => i = j

-----------------------------------------------------------------------------
(* Properties of the pure functions, under SpecPure *)

\* C1: for every numeric score s, getPriorityColor(s) is 'red' iff s >= 5,
\* 'orange' iff 2 <= s < 5 and 'green' iff s < 2, and is always one of the three.
C1_PriorityBuckets ==
    call.fn = "getPriorityColor" =>
        /\ call.ret \in {"red", "orange", "green"}
        /\ call.arg.t = "number" =>
               /\ call.ret = "red" <=> call.arg.n >= 5
               /\ call.ret = "orange" <=> (2 <= call.arg.n /\ call.arg.n < 5)
               /\ call.ret = "green" <=> call.arg.n < 2

C1_Witness ==
    /\ call.fn = "getPriorityColor"
    /\ call.arg = Num(5)
    /\ call.ret = "red"

\* C2: for a feature with a properties mapping, the fill colour of stylePoints is
\* the classifier applied to (prioridade_score ?? 0), a missing score gives the
\* colour of score 0 ('green'), and every other attribute is fixed.
C2_StyleFromScore ==
    (call.fn = "stylePoints" /\ HasProperties(call.arg)) =>
        LET score == call.arg.properties.prioridade_score
        IN  /\ ~call.ret.threw
            /\ call.ret.value.fillColor = getPriorityColor(Nullish(score, Num(0)))
            /\ score = Undefined =>
                   /\ call.ret.value.fillColor = getPriorityColor(Num(0))
                   /\ call.ret.value.fillColor = "green"
            /\ call.ret.value.radius = 8
            /\ call.ret.value.color = "#000"
            /\ call.ret.value.weight = 1
            /\ call.ret.value.opacity = 1
            /\ call.ret.value.fillOpacity = "0.8"

C2_Witness ==
    /\ call.fn = "stylePoints"
    /\ HasProperties(call.arg)
    /\ call.arg.properties.prioridade_score = Undefined
    /\ call.ret.value.fillColor = "green"

\* C8 as stated: with every field absent the popup shows 'N/A' five times and
\* '0' for the score, and each field shows its own value whenever it is present.
C8_OwnValueWhenPresent ==
    IsOnEachFeatureCall =>
        LET props == call.arg.properties
            Field(v, default) == IF Absent(v) THEN default ELSE TemplateText(v)
        IN  /\ Shown(CallPopup, "Tipo") = Field(props.tipo_vazamento, "N/A")
            /\ Shown(CallPopup, "Descricao") = Field(props.descricao_detalhes, "N/A")
            /\ Shown(CallPopup, "Intensidade") = Field(props.intensidade_vazamento, "N/A")
            /\ Shown(CallPopup, "Origem") = Field(props.origem_vazamento, "N/A")
            /\ Shown(CallPopup, "Prioridade") = Field(props.prioridade_score, "0")
            /\ Shown(CallPopup, "Status") = Field(props.status, "N/A")

\* C8 amended: each field shows its own value when it is a non-empty text or a
\* non-zero number, and its default ('N/A', '0' for the score) in every other
\* case: absent, null, empty text, 0 or NaN.
C8_DefaultWhenFalsy ==
    IsOnEachFeatureCall =>
        LET props == call.arg.properties
            Field(v, default) ==
                IF v.t = "string" /\ v.s # "" THEN v.s
                ELSE IF v.t = "number" /\ v.n # 0 THEN ToString(v.n)
                ELSE default
        IN  /\ Shown(CallPopup, "Tipo") = Field(props.tipo_vazamento, "N/A")
            /\ Shown(CallPopup, "Descricao") = Field(props.descricao_detalhes, "N/A")
            /\ Shown(CallPopup, "Intensidade") = Field(props.intensidade_vazamento, "N/A")
            /\ Shown(CallPopup, "Origem") = Field(props.origem_vazamento, "N/A")
            /\ Shown(CallPopup, "Prioridade") = Field(props.prioridade_score, "0")
            /\ Shown(CallPopup, "Status") = Field(props.status, "N/A")

\* Every field absent: 'N/A' five times and '0'.
C8_Witness ==
    /\ IsOnEachFeatureCall
    /\ \A v \in {call.arg.properties.tipo_vazamento,
                 call.arg.properties.descricao_detalhes,
                 call.arg.properties.intensidade_vazamento,
                 call.arg.properties.origem_vazamento,
                 call.arg.properties.prioridade_score,
                 call.arg.properties.status} : v = Undefined
    /\ \A label \in {"Tipo", "Descricao", "Intensidade", "Origem", "Status"} :
           Shown(CallPopup, label) = "N/A"
    /\ Shown(CallPopup, "Prioridade") = "0"

\* C9: the popup holds an image reference iff foto_url is set (a non-empty
\* text); the image is then appended last, once, with that URL as its source.
C9_ImageIffPhoto ==
    IsOnEachFeatureCall =>
        LET photo == call.arg.properties.foto_url
            isSet == photo.t = "string" /\ photo.s # ""
        IN  /\ ImgCount(CallPopup) = (IF isSet THEN 1 ELSE 0)
            /\ isSet => CallPopup[Len(CallPopup)] = Img(photo.s)

C9_Witness ==
    /\ IsOnEachFeatureCall
    /\ call.arg.properties.foto_url = Str("http://fotos/1.jpg")
    /\ ImgCount(CallPopup) = 1

-----------------------------------------------------------------------------
(* Properties of the script, under Spec *)

\* C3: when the request completes with a non-success status, the body is never
\* parsed, no marker is ever added, and the alert is shown exactly once.
C3_HttpFailure ==
    (response # NoResponse /\ ~response.ok) =>
        /\ jsonCalls = 0
        /\ data = NoData
        /\ mapLayers = <<>>
        /\ alerts <= 1
        /\ pc = "done" => alerts = 1

C3_Witness ==
    /\ pc = "done"
    /\ response.status = 500
    /\ alerts = 1
    /\ mapLayers = <<>>

\* C4: the marker layer is on the map only if the request completed with a
\* success status and the whole body was parsed; the layer then holds a marker
\* for every feature of the body, never a part of them.
C4_NoPartialRender ==
    mapLayers # <<>> =>
        /\ response.ok
        /\ jsonCalls = 1
        /\ response.body.kind = "FeatureCollection"
        /\ data.type = "FeatureCollection"
        /\ data.features = response.body.features
        /\ Len(mapLayers) = 1
        /\ Len(mapLayers[1]) = Len(data.features)

C4_Witness ==
    /\ mapLayers # <<>>
    /\ Len(mapLayers[1]) = 2
    /\ pc = "done"

\* C5: when the request succeeds and the body is a FeatureCollection of n point
\* features, the run ends with n markers on the map, each with the classifier's
\* colour for its feature's score, and the alert is never shown.
C5_AllFeaturesDrawn ==
    (response.ok /\ response.body.kind = "FeatureCollection") =>
        /\ alerts = 0
        /\ pc = "done" =>
               /\ Len(mapLayers) = 1
               /\ Len(mapLayers[1]) = Len(response.body.features)
               /\ \A i \in 1..Len(response.body.features) :
                      mapLayers[1][i].options.fillColor =
                          getPriorityColor(
                              Nullish(response.body.features[i].properties.prioridade_score,
                                      Num(0)))

\* C6: a connection failure or an unparsable body ends the run in the same
\* terminal state as a bad HTTP status: logged, alerted once, nothing drawn.
C6_SameFailureHandling ==
    (/\ pc = "done"
     /\ \/ error.name \in {"Error", "SyntaxError"}
        \/ error.message = "Failed to fetch") =>
        FailedLoad

C6_Witness ==
    /\ pc = "done"
    /\ error.name = "SyntaxError"
    /\ FailedLoad

\* What C7 says of the request count and of the continuations, in any run.
C7_Common ==
    /\ requests <= 1
    /\ requests = 1 => (mapView /\ tileLayer)
    /\ pc \in {"pending", "then1", "json", "then2", "catch", "done"} => requests = 1
    /\ NoDuplicates(handlers)
    /\ handlers # <<>> =>
           /\ requests = 1
           /\ handlers[1] = "then1" <=> response # NoResponse
           /\ handlers[1] = "catch" <=> response = NoResponse

\* C7 as stated: in every run exactly one request is issued, after the map and
\* the tile layer, never a second one, and one continuation resumes from it.
C7_OneRequestEveryRun ==
    /\ C7_Common
    /\ pc \in {"done", "aborted"} => requests = 1

\* C7 amended: the same in every run in which config is defined; with config
\* undefined the script stops at the map construction and issues no request.
C7_OneRequestWhenConfigured ==
    /\ C7_Common
    /\ (pc \in {"done", "aborted"} /\ configLoaded) => requests = 1
    /\ pc = "aborted" => (~configLoaded /\ requests = 0)

C7_Witness ==
    /\ pc = "done"
    /\ requests = 1
    /\ handlers = <<"then1", "catch">>

\* C10: a completed request ends in exactly one outcome: the layer is on the
\* map and no alert was shown, or the alert was shown once and no layer is on
\* the map; a feature with null properties gives the second outcome.
C10_ExactlyOneOutcome ==
    /\ ~(mapLayers # <<>> /\ alerts > 0)
    /\ pc = "done" =>
           \/ (Len(mapLayers) = 1 /\ alerts = 0)
           \/ (mapLayers = <<>> /\ alerts = 1)
    /\ (pc = "done" /\ \E i \in 1..Len(data.features) :
                           ~HasProperties(data.features[i])) =>
           (mapLayers = <<>> /\ alerts = 1)

\* A drawable feature followed by one with null properties.
C10_Witness ==
    /\ pc = "done"
    /\ Len(data.features) = 2
    /\ HasProperties(data.features[1])
    /\ ~HasProperties(data.features[2])
    /\ alerts = 1
    /\ mapLayers = <<>>

====
